---- MODULE Spec2Model ----
(***************************************************************************)
(* Model of the IncidentWorkbench desktop shell (src-tauri/src/main.rs,    *)
(* src-tauri/src/lib.rs): the sidecar supervisor and port broker and the   *)
(* credentials-vault reset command.                                        *)
(*                                                                         *)
(* Execution contexts (spec section 5): the setup closure, the             *)
(* window-event closure (one run per destroyed window) and the UI command  *)
(* invocations.  Each context advances one lock acquisition, one critical  *)
(* section or one OS call at a time, and the contexts interleave freely.   *)
(***************************************************************************)
EXTENDS Integers, FiniteSets, Sequences, TLC

\* ---------------------------------------------------------------- bounds
NumCallers == 2     \* concurrent UI command invocations
NumWindows == 2     \* windows whose Destroyed event is delivered

Callers == 1..NumCallers
Windows == 1..NumWindows

\* ------------------------------------------------------------ data types
\* Option<u16>: None is -1, Some(p) is p (lib.rs:5).
None == -1
\* u16 values the cell may hold, and those the worker may bind and print.
PortValues == {0, 8765, 8766, 65535}
ReportedPorts == {8765, 8766}
\* Option<CommandChild> (lib.rs:7): there is one spawn, hence one child.
NoChild == "NoChild"
Child == "Child"

\* The literal stored on the spawn-success branch (main.rs:57) and on the
\* spawn-failure branch (main.rs:70).
HardcodedPort == 8765
\* Mutant: the fallback branch publishes another literal than the success branch.
FallbackPortOther == HardcodedPort + 1
FallbackPort == 8765

\* Result<T, String>
Ok(v) == [kind |-> "Ok", val |-> v, msg |-> ""]
Err(m) == [kind |-> "Err", val |-> None, msg |-> m]
NoRet == [kind |-> "NoRet", val |-> None, msg |-> ""]
Unit == -2
ErrNotSet == Err("Backend port not yet set")
ErrPortLock == Err("Failed to lock backend port")
ErrAppDir == Err("Failed to locate app data directory")
\* main.rs:27: format!("Failed to delete credentials vault: {e}") for the two
\* errors remove_file returns here.
ErrDelete == Err("Failed to delete credentials vault: permission denied")
ErrDeleteNotFound == Err("Failed to delete credentials vault: no such file")

\* Lock owners.
Free == [kind |-> "free", id |-> 0]
SetupCtx == [kind |-> "setup", id |-> 0]
UiCtx(c) == [kind |-> "ui", id |-> c]
WinCtx(w) == [kind |-> "window", id |-> w]

VARIABLES
    port,           \* BackendPort cell: None or the stored port
    portLock,       \* owner of BackendPort's mutex
    portPoisoned,   \* BackendPort's mutex is poisoned
    portWrites,     \* history: number of writes of the port cell
    proc,           \* SidecarProcess cell: NoChild or Child
    procLock,       \* owner of SidecarProcess's mutex
    procPoisoned,   \* SidecarProcess's mutex is poisoned
    setupPc,        \* position of the setup closure
    setupChild,     \* setup's local `child` holds the handle
    worker,         \* the worker OS process
    reported,       \* the port the worker bound and printed (None: no worker)
    kills,          \* number of kill requests sent to the worker
    takes,          \* history: number of times a handle was taken out of the cell
    hPc,            \* per window: position of the Destroyed handler
    hChild,         \* per window: the handler's local `child` holds the handle
    uiPc,           \* per caller: position of the command invocation
    uiRet,          \* per caller: value returned by the last completed command
    uiPrev,         \* per caller: value returned by the command before that
    uiAtCall,       \* per caller: did the vault file exist when the last reset was called
    uiPrevDeleted,  \* per caller: the reset before the last one removed the file
    uiDeleted,      \* per caller: the last reset removed the file
    vault,          \* <app-data>/credentials.stronghold exists
    appDataDirOk    \* the platform application-data directory resolves

supVars == <<port, portLock, portPoisoned, portWrites, proc, procLock, procPoisoned,
             setupPc, setupChild, worker, reported, kills, takes, hPc, hChild>>
uiVars == <<uiPc, uiRet, uiPrev>>
vaultVars == <<uiAtCall, uiPrevDeleted, uiDeleted, vault, appDataDirOk>>
vars == <<supVars, uiVars, vaultVars>>

\* ----------------------------------------------------------- construction
\* main.rs:37-38: both cells are managed as Mutex::new(None) before run().
InitCells ==
    /\ port = None /\ portLock = Free /\ portWrites = 0
    /\ proc = NoChild /\ procLock = Free
    /\ setupPc = "start" /\ setupChild = FALSE
    /\ worker = "notSpawned" /\ reported = None /\ kills = 0 /\ takes = 0
    /\ hPc = [w \in Windows |-> "idle"]
    /\ hChild = [w \in Windows |-> FALSE]

InitUi ==
    /\ uiPc = [c \in Callers |-> "idle"]
    /\ uiRet = [c \in Callers |-> NoRet]
    /\ uiPrev = [c \in Callers |-> NoRet]
    /\ uiAtCall = [c \in Callers |-> FALSE]
    /\ uiPrevDeleted = [c \in Callers |-> FALSE]
    /\ uiDeleted = [c \in Callers |-> FALSE]

\* The file system the application starts on: the vault file can only exist
\* inside an application-data directory that resolves.
InitFs ==
    /\ appDataDirOk \in BOOLEAN
    /\ vault \in BOOLEAN
    /\ (~appDataDirOk => ~vault)

\* No code path panics while it holds a guard, so neither mutex is poisoned.
InitLocks == portPoisoned = FALSE /\ procPoisoned = FALSE

\* The supervisor starts beside a resolvable directory holding a vault file;
\* none of its steps reads the file system.
Init ==
    /\ InitCells /\ InitUi /\ InitLocks
    /\ appDataDirOk = TRUE /\ vault = TRUE

\* The vault reset command starts on any of the file systems.
InitVault == InitCells /\ InitUi /\ InitLocks /\ InitFs

\* A setup error makes run() fail (main.rs:93-94): the process is gone.
Alive == setupPc # "aborted"

\* ------------------------------------------------------------------ setup
\* main.rs:44: app.shell().sidecar("incident-workbench-api")? -- resolving the
\* sidecar command either yields a command or returns the error from setup.
SetupResolve ==
    /\ Alive /\ setupPc = "start"
    /\ \E resolved \in BOOLEAN :
         setupPc' = IF resolved THEN "spawn" ELSE "aborted"
    /\ UNCHANGED <<port, portLock, portPoisoned, portWrites, proc, procLock,
                   procPoisoned, setupChild, worker, reported, kills, takes,
                   hPc, hChild, uiVars, vaultVars>>

\* main.rs:48-49: spawn() succeeded; the worker runs and has bound the port
\* it prints on its first line of output (rx, never read).
SetupSpawnOk ==
    /\ Alive /\ setupPc = "spawn"
    /\ \E p \in ReportedPorts : reported' = p
    /\ worker' = "running"
    /\ setupChild' = TRUE
    /\ setupPc' = "okLockPort"
    /\ UNCHANGED <<port, portLock, portPoisoned, portWrites, proc, procLock,
                   procPoisoned, kills, takes, hPc, hChild, uiVars, vaultVars>>

\* main.rs:65-66: spawn() failed; a warning is printed.
SetupSpawnErr ==
    /\ Alive /\ setupPc = "spawn"
    /\ worker' = "spawnFailed"
    /\ setupPc' = "errLockPort"
    /\ UNCHANGED <<port, portLock, portPoisoned, portWrites, proc, procLock,
                   procPoisoned, setupChild, reported, kills, takes, hPc, hChild,
                   uiVars, vaultVars>>

\* main.rs:56 and main.rs:69: `if let Ok(mut port) = backend_port.0.lock()`.
\* A poisoned mutex makes the pattern fail and the body is skipped.
SetupLockPort ==
    /\ Alive /\ setupPc \in {"okLockPort", "errLockPort"}
    /\ portLock = Free
    /\ IF portPoisoned
         THEN /\ setupPc' = IF setupPc = "okLockPort" THEN "okLockProc" ELSE "done"
              /\ UNCHANGED portLock
         ELSE /\ setupPc' = IF setupPc = "okLockPort" THEN "okSetPort" ELSE "errSetPort"
              /\ portLock' = SetupCtx
    /\ UNCHANGED <<port, portPoisoned, portWrites, proc, procLock, procPoisoned,
                   setupChild, worker, reported, kills, takes, hPc, hChild,
                   uiVars, vaultVars>>

\* main.rs:57: the port published for a spawned worker that reported r.
PublishedPort(r) == HardcodedPort

\* Mutant: the port guard is kept while setup goes on to the handle cell.
SetupSetPortKeepsGuard ==
    /\ Alive /\ setupPc = "okSetPort"
    /\ port' = PublishedPort(reported)
    /\ portWrites' = portWrites + 1
    /\ setupPc' = "okLockProc"
    /\ UNCHANGED <<portLock, portPoisoned, proc, procLock, procPoisoned, setupChild,
                   worker, reported, kills, takes, hPc, hChild, uiVars, vaultVars>>

\* main.rs:57-58: *port = Some(8765); the guard is dropped.
SetupSetPort ==
    /\ Alive /\ setupPc = "okSetPort"
    /\ port' = PublishedPort(reported)
    /\ portWrites' = portWrites + 1
    /\ portLock' = Free
    /\ setupPc' = "okLockProc"
    /\ UNCHANGED <<portPoisoned, proc, procLock, procPoisoned, setupChild, worker,
                   reported, kills, takes, hPc, hChild, uiVars, vaultVars>>

\* main.rs:61: `if let Ok(mut proc) = sidecar_process.0.lock()`.  When the
\* pattern fails the child handle is dropped at the end of the match arm.
SetupLockProc ==
    /\ Alive /\ setupPc = "okLockProc"
    /\ procLock = Free
    /\ IF procPoisoned
         THEN /\ setupPc' = "done"
              /\ setupChild' = FALSE
              /\ UNCHANGED procLock
         ELSE /\ setupPc' = "okSetProc"
              /\ procLock' = SetupCtx
              /\ UNCHANGED setupChild
    /\ UNCHANGED <<port, portLock, portPoisoned, portWrites, proc, procPoisoned,
                   worker, reported, kills, takes, hPc, hChild, uiVars, vaultVars>>

\* Mutant: the child is dropped instead of stored in the cell.
SetupDropsChild ==
    /\ Alive /\ setupPc = "okSetProc"
    /\ setupChild' = FALSE
    /\ procLock' = Free
    /\ setupPc' = "done"
    /\ UNCHANGED <<port, portLock, portPoisoned, portWrites, proc, procPoisoned, worker,
                   reported, kills, takes, hPc, hChild, uiVars, vaultVars>>

\* main.rs:62-63: *proc = Some(child); the guard is dropped; Ok(()) follows.
SetupStoreChild ==
    /\ Alive /\ setupPc = "okSetProc"
    /\ proc' = Child
    /\ setupChild' = FALSE
    /\ procLock' = Free
    /\ setupPc' = "done"
    /\ UNCHANGED <<port, portLock, portPoisoned, portWrites, procPoisoned, worker,
                   reported, kills, takes, hPc, hChild, uiVars, vaultVars>>

\* Mutant: the fallback branch logs the failure and publishes nothing.
SetupFallbackNoPort ==
    /\ Alive /\ setupPc = "errSetPort"
    /\ portLock' = Free
    /\ setupPc' = "done"
    /\ UNCHANGED <<port, portPoisoned, portWrites, proc, procLock, procPoisoned,
                   setupChild, worker, reported, kills, takes, hPc, hChild, uiVars,
                   vaultVars>>

\* main.rs:70-71: *port = Some(8765) on the fallback branch; Ok(()) follows.
SetupFallbackSetPort ==
    /\ Alive /\ setupPc = "errSetPort"
    /\ port' = FallbackPort
    /\ portWrites' = portWrites + 1
    /\ portLock' = Free
    /\ setupPc' = "done"
    /\ UNCHANGED <<portPoisoned, proc, procLock, procPoisoned, setupChild, worker,
                   reported, kills, takes, hPc, hChild, uiVars, vaultVars>>

SetupNext ==
    \/ SetupResolve
    \/ SetupSpawnOk
    \/ SetupSpawnErr
    \/ SetupLockPort
    \/ SetupSetPort
    \/ SetupLockProc
    \/ SetupStoreChild
    \/ SetupFallbackSetPort

\* -------------------------------------------------- window-event handler
\* Mutant: the handle is read out of the cell without emptying it.
TakeKeepsCell(cell) == [taken |-> cell, left |-> cell]

\* Option::take (main.rs:82): the value moved out and what the cell is left with.
Take(cell) == [taken |-> cell, left |-> NoChild]

\* Mutant: a poisoned mutex is recovered (into_inner) and the cleanup goes on.
HandlerLockRecovers(w) ==
    /\ Alive /\ hPc[w] = "idle"
    /\ procLock = Free
    /\ hPc' = [hPc EXCEPT ![w] = "locked"]
    /\ procLock' = WinCtx(w)
    /\ UNCHANGED <<port, portLock, portPoisoned, portWrites, proc, procPoisoned,
                   setupPc, setupChild, worker, reported, kills, takes, hChild,
                   uiVars, vaultVars>>

\* main.rs:78-81: a Destroyed event of window w; try_state finds the managed
\* cell (main.rs:38); `if let Ok(mut proc) = sidecar_state.0.lock()` skips the
\* cleanup when the mutex is poisoned.
HandlerLock(w) ==
    /\ Alive /\ hPc[w] = "idle"
    /\ procLock = Free
    /\ IF procPoisoned
         THEN /\ hPc' = [hPc EXCEPT ![w] = "done"]
              /\ UNCHANGED procLock
         ELSE /\ hPc' = [hPc EXCEPT ![w] = "locked"]
              /\ procLock' = WinCtx(w)
    /\ UNCHANGED <<port, portLock, portPoisoned, portWrites, proc, procPoisoned,
                   setupPc, setupChild, worker, reported, kills, takes, hChild,
                   uiVars, vaultVars>>

\* main.rs:82: `if let Some(child) = proc.take()`; with an empty cell the
\* guard is dropped and the handler returns.
HandlerTake(w) ==
    /\ Alive /\ hPc[w] = "locked"
    /\ proc' = Take(proc).left
    /\ IF Take(proc).taken = Child
         THEN /\ hChild' = [hChild EXCEPT ![w] = TRUE]
              /\ takes' = takes + 1
              /\ hPc' = [hPc EXCEPT ![w] = "kill"]
              /\ UNCHANGED procLock
         ELSE /\ hPc' = [hPc EXCEPT ![w] = "done"]
              /\ procLock' = Free
              /\ UNCHANGED <<hChild, takes>>
    /\ UNCHANGED <<port, portLock, portPoisoned, portWrites, procPoisoned, setupPc,
                   setupChild, worker, reported, kills, uiVars, vaultVars>>

\* Mutant: the cleanup also clears the published port.
HandlerKillClearsPort(w) ==
    /\ Alive /\ hPc[w] = "kill"
    /\ kills' = kills + 1
    /\ \E delivered \in BOOLEAN :
         worker' = IF delivered THEN "killed" ELSE worker
    /\ hChild' = [hChild EXCEPT ![w] = FALSE]
    /\ procLock' = Free
    /\ hPc' = [hPc EXCEPT ![w] = "done"]
    /\ port' = None
    /\ UNCHANGED <<portLock, portPoisoned, portWrites, proc, procPoisoned,
                   setupPc, setupChild, reported, takes, uiVars, vaultVars>>

\* main.rs:83-85: `let _ = child.kill();` -- the request is sent, its result
\* is discarded, the handle is consumed and the guard is dropped.
HandlerKill(w) ==
    /\ Alive /\ hPc[w] = "kill"
    /\ kills' = kills + 1
    /\ \E delivered \in BOOLEAN :
         worker' = IF delivered THEN "killed" ELSE worker
    /\ hChild' = [hChild EXCEPT ![w] = FALSE]
    /\ procLock' = Free
    /\ hPc' = [hPc EXCEPT ![w] = "done"]
    /\ UNCHANGED <<port, portLock, portPoisoned, portWrites, proc, procPoisoned,
                   setupPc, setupChild, reported, takes, uiVars, vaultVars>>

HandlerNext ==
    \E w \in Windows : HandlerLock(w) \/ HandlerTake(w) \/ HandlerKill(w)

\* ------------------------------------------------------ get_backend_port
\* Mutant: an empty cell is read as the fallback port (unwrap_or).
GetBackendPortOrFallback(poisoned, cell) ==
    IF poisoned THEN ErrPortLock
    ELSE IF cell = None THEN Ok(FallbackPort)
    ELSE Ok(cell)

\* Mutant: a set cell is reported as the hardcoded port, whatever it holds.
GetBackendPortHardcoded(poisoned, cell) ==
    IF poisoned THEN ErrPortLock
    ELSE IF cell = None THEN ErrNotSet
    ELSE Ok(HardcodedPort)

\* main.rs:9-15 and lib.rs:10-14: lock().map_err(..)?.ok_or_else(..)
GetBackendPortResult(poisoned, cell) ==
    IF poisoned THEN ErrPortLock
    ELSE IF cell = None THEN ErrNotSet
    ELSE Ok(cell)

\* main.rs:10-13: the invocation acquires the mutex; a poisoned mutex
\* returns the lock error at once.
GetLock(c) ==
    /\ Alive /\ uiPc[c] = "idle"
    /\ portLock = Free
    /\ IF portPoisoned
         THEN /\ uiRet' = [uiRet EXCEPT ![c] = GetBackendPortResult(TRUE, port)]
              /\ uiPrev' = [uiPrev EXCEPT ![c] = uiRet[c]]
              /\ UNCHANGED <<uiPc, portLock>>
         ELSE /\ uiPc' = [uiPc EXCEPT ![c] = "getLocked"]
              /\ portLock' = UiCtx(c)
              /\ UNCHANGED <<uiRet, uiPrev>>
    /\ UNCHANGED <<port, portPoisoned, portWrites, proc, procLock, procPoisoned,
                   setupPc, setupChild, worker, reported, kills, takes, hPc, hChild,
                   vaultVars>>

\* Mutant: the port is moved out of the cell (take) instead of copied.
GetReturnTakesPort(c) ==
    /\ Alive /\ uiPc[c] = "getLocked"
    /\ uiRet' = [uiRet EXCEPT ![c] = GetBackendPortResult(FALSE, port)]
    /\ uiPrev' = [uiPrev EXCEPT ![c] = uiRet[c]]
    /\ uiPc' = [uiPc EXCEPT ![c] = "idle"]
    /\ portLock' = Free
    /\ port' = None
    /\ UNCHANGED <<portPoisoned, portWrites, proc, procLock, procPoisoned,
                   setupPc, setupChild, worker, reported, kills, takes, hPc, hChild,
                   vaultVars>>

\* main.rs:14: the cell is read under the guard, the guard is dropped and
\* the result returned.
GetReturn(c) ==
    /\ Alive /\ uiPc[c] = "getLocked"
    /\ uiRet' = [uiRet EXCEPT ![c] = GetBackendPortResult(FALSE, port)]
    /\ uiPrev' = [uiPrev EXCEPT ![c] = uiRet[c]]
    /\ uiPc' = [uiPc EXCEPT ![c] = "idle"]
    /\ portLock' = Free
    /\ UNCHANGED <<port, portPoisoned, portWrites, proc, procLock, procPoisoned,
                   setupPc, setupChild, worker, reported, kills, takes, hPc, hChild,
                   vaultVars>>

GetNext == \E c \in Callers : GetLock(c) \/ GetReturn(c)

\* ----------------------------------------------- reset_credentials_vault
\* Bookkeeping of a returning reset invocation of caller c.
ResetReturns(c, result, deleted) ==
    /\ uiRet' = [uiRet EXCEPT ![c] = result]
    /\ uiPrev' = [uiPrev EXCEPT ![c] = uiRet[c]]
    /\ uiDeleted' = [uiDeleted EXCEPT ![c] = deleted]
    /\ uiPrevDeleted' = [uiPrevDeleted EXCEPT ![c] = uiDeleted[c]]
    /\ uiPc' = [uiPc EXCEPT ![c] = "idle"]

\* main.rs:19-23: app.path().app_data_dir().map_err(..)? and the join.
ResetResolve(c) ==
    /\ Alive /\ uiPc[c] = "idle"
    /\ uiAtCall' = [uiAtCall EXCEPT ![c] = vault]
    /\ IF appDataDirOk
         THEN /\ uiPc' = [uiPc EXCEPT ![c] = "resetExists"]
              /\ UNCHANGED <<uiRet, uiPrev, uiDeleted, uiPrevDeleted>>
         ELSE ResetReturns(c, ErrAppDir, FALSE)
    /\ UNCHANGED <<supVars, vault, appDataDirOk>>

\* Mutant: remove_file is called without the existence check.
RemoveAlways(exists) == TRUE

\* main.rs:25: the condition under which remove_file is called.
ShouldRemove(exists) == exists

\* main.rs:25 and main.rs:30: snapshot_path.exists(); Ok(()) when it is false.
ResetExists(c) ==
    /\ Alive /\ uiPc[c] = "resetExists"
    /\ IF ShouldRemove(vault)
         THEN /\ uiPc' = [uiPc EXCEPT ![c] = "resetRemove"]
              /\ UNCHANGED <<uiRet, uiPrev, uiDeleted, uiPrevDeleted>>
         ELSE ResetReturns(c, Ok(Unit), FALSE)
    /\ UNCHANGED <<supVars, uiAtCall, vault, appDataDirOk>>

\* Mutant: the error is reported after the file has already been removed.
ResetRemoveThenFail(c) ==
    /\ Alive /\ uiPc[c] = "resetRemove"
    /\ IF vault
         THEN \E denied \in BOOLEAN :
                IF denied
                  THEN /\ ResetReturns(c, ErrDelete, FALSE)
                       /\ vault' = FALSE
                  ELSE /\ ResetReturns(c, Ok(Unit), TRUE)
                       /\ vault' = FALSE
         ELSE /\ ResetReturns(c, ErrDeleteNotFound, FALSE)
              /\ UNCHANGED vault
    /\ UNCHANGED <<supVars, uiAtCall, appDataDirOk>>

\* main.rs:26-30: fs::remove_file(..).map_err(..)?; Ok(()).  The file system
\* removes the file, denies the removal, or finds no file to remove.
ResetRemove(c) ==
    /\ Alive /\ uiPc[c] = "resetRemove"
    /\ IF vault
         THEN \E denied \in BOOLEAN :
                IF denied
                  THEN /\ ResetReturns(c, ErrDelete, FALSE)
                       /\ UNCHANGED vault
                  ELSE /\ ResetReturns(c, Ok(Unit), TRUE)
                       /\ vault' = FALSE
         ELSE /\ ResetReturns(c, ErrDeleteNotFound, FALSE)
              /\ UNCHANGED vault
    /\ UNCHANGED <<supVars, uiAtCall, appDataDirOk>>

ResetNext == \E c \in Callers : ResetResolve(c) \/ ResetExists(c) \/ ResetRemove(c)

\* ------------------------------------------------------- specifications
\* The supervisor and port broker: setup, the Destroyed handlers and the
\* get_backend_port invocations.
Next == SetupNext \/ HandlerNext \/ GetNext

Spec == Init /\ [][Next]_vars

\* Setup is run once by the framework and each of its steps is a bounded
\* call; a context that holds a mutex finishes its critical section
\* (main.rs:14, main.rs:82-85: the read, the take and the kill are bounded
\* calls), so the mutexes setup waits for are released again.
FairSpec ==
    /\ Spec
    /\ SF_vars(SetupNext)
    /\ \A c \in Callers : WF_vars(GetReturn(c))
    /\ \A w \in Windows : WF_vars(HandlerTake(w) \/ HandlerKill(w))

\* The vault reset command: concurrent reset_credentials_vault invocations.
SpecVault == InitVault /\ [][ResetNext]_vars

\* The port registry on its own (lib.rs:5, lib.rs:10-14): the cell holds any
\* Option<u16> and is read by get_backend_port invocations.
InitRegistry ==
    /\ port \in PortValues \cup {None}
    /\ portWrites = IF port = None THEN 0 ELSE 1
    /\ portLock = Free
    /\ proc = NoChild /\ procLock = Free
    /\ setupPc = "start" /\ setupChild = FALSE
    /\ worker = "notSpawned" /\ reported = None /\ kills = 0 /\ takes = 0
    /\ hPc = [w \in Windows |-> "idle"]
    /\ hChild = [w \in Windows |-> FALSE]
    /\ InitUi /\ InitFs /\ InitLocks

SpecRegistry == InitRegistry /\ [][GetNext]_vars

\* The whole application: setup and the Destroyed handlers interleaved with
\* one UI caller that invokes both commands (main.rs:89-92), on any of the
\* file systems.
UiCaller == CHOOSE c \in Callers : TRUE

AppNext ==
    \/ SetupNext
    \/ HandlerNext
    \/ GetLock(UiCaller)
    \/ GetReturn(UiCaller)
    \/ ResetResolve(UiCaller)
    \/ ResetExists(UiCaller)
    \/ ResetRemove(UiCaller)

SpecApp == InitVault /\ [][AppNext]_vars

\* Every step of a command invocation is a bounded call (a critical section,
\* an existence check, a removal), as are the steps of setup and the handlers.
FairSpecApp ==
    /\ SpecApp
    /\ SF_vars(SetupNext)
    /\ WF_vars(GetReturn(UiCaller))
    /\ WF_vars(ResetExists(UiCaller) \/ ResetRemove(UiCaller))
    /\ \A w \in Windows : WF_vars(HandlerTake(w) \/ HandlerKill(w))

\* Lock failure as an input.  No code under src/ panics while it holds a
\* guard, so Spec never poisons a mutex; here either mutex may become
\* poisoned at any moment it is free, after which every lock() on it
\* returns Err (lib.rs:5, lib.rs:7: std::sync::Mutex).
PoisonPort ==
    /\ Alive /\ ~portPoisoned /\ portLock = Free
    /\ portPoisoned' = TRUE
    /\ UNCHANGED <<port, portLock, portWrites, proc, procLock, procPoisoned,
                   setupPc, setupChild, worker, reported, kills, takes, hPc, hChild,
                   uiVars, vaultVars>>

PoisonProc ==
    /\ Alive /\ ~procPoisoned /\ procLock = Free
    /\ procPoisoned' = TRUE
    /\ UNCHANGED <<port, portLock, portPoisoned, portWrites, proc, procLock,
                   setupPc, setupChild, worker, reported, kills, takes, hPc, hChild,
                   uiVars, vaultVars>>

LockFailureNext == Next \/ PoisonPort \/ PoisonProc

SpecLockFailure == Init /\ [][LockFailureNext]_vars

\* ------------------------------------------------------------ properties
Spawned == worker \in {"running", "killed"}
AllWindowsHandled == \A w \in Windows : hPc[w] = "done"

\* C1: if the worker was spawned during setup, then once the window-destroyed
\* handlers have run (and setup has returned) the worker has been sent exactly
\* one termination request.
C1_KilledExactlyOnceAfterClose ==
    (Spawned /\ setupPc = "done" /\ AllWindowsHandled) => kills = 1

\* C2: whatever number of Destroyed signals is delivered, at most one kill
\* request is issued: the handle is taken out of the cell at most once, and
\* a handler that finished without taking it sent nothing.
C2_AtMostOneKill ==
    /\ kills <= 1
    /\ takes <= 1
    /\ kills <= takes

C2_Witness ==
    /\ NumWindows >= 2
    /\ AllWindowsHandled
    /\ takes = 1
    /\ kills = 1

\* C3: while the port has never been stored, every get_backend_port
\* invocation that has returned failed with "Backend port not yet set", and
\* none returned a port.
C3_NotSetBeforeStore ==
    portWrites = 0 =>
        \A c \in Callers : uiRet[c] \in {NoRet, ErrNotSet} /\ uiPrev[c] \in {NoRet, ErrNotSet}

C3_Witness ==
    /\ setupPc = "start"
    /\ portWrites = 0
    /\ \E c \in Callers : uiRet[c] = ErrNotSet /\ uiPc[c] = "idle"

\* C4: with any port p stored in the cell, every get_backend_port invocation
\* returns exactly p, and two consecutive invocations return the same value.
C4_GetReturnsStoredPort ==
    port # None =>
        \A c \in Callers :
            /\ uiRet[c] # NoRet => uiRet[c] = Ok(port)
            /\ uiPrev[c] # NoRet => uiPrev[c] = uiRet[c]

C4_Witness ==
    /\ port = 65535
    /\ \E c \in Callers : uiRet[c] = Ok(65535) /\ uiPrev[c] = Ok(65535)

\* C5: the port cell is write-once: it is written at most once, and a value
\* it holds never changes and is never cleared, also after shutdown.
C5_PortWriteOnce ==
    [][(port # None => port' = port) /\ portWrites' <= 1]_vars

C5_Witness ==
    /\ port # None
    /\ portWrites = 1
    /\ AllWindowsHandled
    /\ kills = 1

\* C6: if the spawn fails, the handle cell is and stays empty and no kill
\* request is ever issued, and once setup has returned the port cell holds
\* 8765, which get_backend_port returns.
C6_SpawnFailureFallback ==
    worker = "spawnFailed" =>
        /\ proc = NoChild /\ ~setupChild
        /\ takes = 0 /\ kills = 0
        /\ setupPc = "done" =>
              /\ port = 8765
              /\ GetBackendPortResult(portPoisoned, port) = Ok(8765)

C6_Witness ==
    /\ worker = "spawnFailed"
    /\ setupPc = "done"
    /\ AllWindowsHandled
    /\ \E c \in Callers : uiRet[c] = Ok(8765)

\* The live handles of the worker: setup's local, the cell, the handlers' locals.
Handles ==
    (IF setupChild THEN 1 ELSE 0) + (IF proc = Child THEN 1 ELSE 0)
        + Cardinality({w \in Windows : hChild[w]})

\* C7: at most one live handle exists; after a successful spawn the cell
\* holds the handle from the end of setup until a handler takes it, and
\* holds none afterwards.
C7_OneHandle ==
    /\ Handles <= 1
    /\ (Spawned /\ setupPc = "done" /\ takes = 0) => proc = Child
    /\ takes > 0 => proc = NoChild

C7_Witness ==
    /\ Spawned /\ setupPc = "done"
    /\ takes = 1
    /\ proc = NoChild
    /\ AllWindowsHandled

C9_DiscoveredPortPublished ==
    (Spawned /\ setupPc = "done") => port = reported

Returned(c) == uiPc[c] = "idle" /\ uiRet[c] # NoRet

\* C10 as stated: a reset called when the vault file does not exist returns
\* success and removes nothing, and a reset that follows a reset that removed
\* the file returns success as well.
C10_ResetIdempotent ==
    \A c \in Callers :
        Returned(c) =>
            /\ ~uiAtCall[c] => (uiRet[c] = Ok(Unit) /\ ~uiDeleted[c] /\ ~vault)
            /\ uiPrevDeleted[c] => (uiPrev[c] = Ok(Unit) /\ uiRet[c] = Ok(Unit))

\* C10 amended: the same, for an application-data directory that resolves.
C10_ResetIdempotentInAppDir ==
    \A c \in Callers :
        Returned(c) =>
            /\ (appDataDirOk /\ ~uiAtCall[c]) =>
                  (uiRet[c] = Ok(Unit) /\ ~uiDeleted[c] /\ ~vault)
            /\ uiPrevDeleted[c] => (uiPrev[c] = Ok(Unit) /\ uiRet[c] = Ok(Unit))

C10_Witness ==
    \E c \in Callers :
        /\ Returned(c)
        /\ uiPrevDeleted[c]
        /\ ~uiAtCall[c]
        /\ uiRet[c] = Ok(Unit)

\* A step in which the reset invocation of caller c returns.
ResetReturnStep(c) ==
    /\ uiPc'[c] = "idle"
    /\ \/ uiPc[c] \in {"resetExists", "resetRemove"}
       \/ uiPc[c] = "idle" /\ ~appDataDirOk /\ uiRet'[c] = ErrAppDir

\* C11: a reset that returns success leaves no vault file behind, and a reset
\* that returns an error string (directory not resolvable, deletion denied)
\* leaves the vault file exactly as it was.
C11_ResetDeletesOrLeavesUntouched ==
    [][\A c \in Callers :
          ResetReturnStep(c) =>
              /\ uiRet'[c] = Ok(Unit) => ~vault'
              /\ uiRet'[c] # Ok(Unit) => (uiRet'[c].kind = "Err" /\ vault' = vault)]_vars

C11_Witness ==
    \E c, d \in Callers :
        /\ Returned(c) /\ uiAtCall[c] /\ uiRet[c] = ErrDelete /\ vault
        /\ Returned(d) /\ uiRet[d] = ErrDelete /\ uiPrev[d] = NoRet

\* C15: a missing vault file is never reported as an error: every reset
\* invocation that reached the file system and whose deletion was not denied
\* returns success, also when another invocation removed the file first.
C15_MissingFileNeverAnError ==
    \A c \in Callers :
        (Returned(c) /\ appDataDirOk /\ uiRet[c] # ErrDelete) => uiRet[c] = Ok(Unit)

Holds(ctx) == {l \in {"port", "proc"} :
                  (l = "port" /\ portLock = ctx) \/ (l = "proc" /\ procLock = ctx)}

\* C12: no registry lock is held across a blocking operation: while a spawn,
\* a kill request or a file deletion is in progress, the context performing
\* it holds neither the port lock nor the process-handle lock.
C12_NoLockAcrossBlockingCall ==
    /\ setupPc = "spawn" => Holds(SetupCtx) = {}
    /\ \A w \in Windows : hPc[w] = "kill" => Holds(WinCtx(w)) = {}
    /\ \A c \in Callers : uiPc[c] = "resetRemove" => Holds(UiCtx(c)) = {}

\* C13: a lock failure outside the shutdown path is never silently ignored:
\* get_backend_port returns the lock error, and setup returns normally only
\* when its writes of the port and of the process handle have happened.
C13_LockFailureSurfaced ==
    /\ GetBackendPortResult(TRUE, port) = ErrPortLock
    /\ setupPc = "done" =>
          /\ portWrites = 1
          /\ Spawned => (proc = Child \/ takes > 0)

\* C16: the shutdown handler is best-effort: when locking the handle cell
\* fails it skips the cleanup (no take, no kill request, the cell unchanged)
\* and is done; after the kill request, delivered or failed, the slot is
\* empty, the handle consumed and the handler done.
C16_HandlerBestEffort ==
    [][\A w \in Windows :
          /\ (hPc[w] = "idle" /\ hPc'[w] # "idle" /\ procPoisoned) =>
                (hPc'[w] = "done" /\ kills' = kills /\ takes' = takes /\ proc' = proc)
          /\ (hPc[w] = "kill" /\ hPc'[w] # "kill") =>
                (hPc'[w] = "done" /\ kills' = kills + 1 /\ proc' = NoChild /\ ~hChild'[w])]_vars

C16_Witness ==
    /\ procPoisoned
    /\ setupPc = "done" /\ proc = Child
    /\ AllWindowsHandled
    /\ kills = 0

\* The supervisor's state (spec section 4.2) read off the program: Terminated
\* once a Destroyed handler has executed its take() (main.rs:82), otherwise
\* the position of setup and the outcome of the spawn.
SupervisorState ==
    IF \E w \in Windows : hPc[w] \in {"kill", "done"} THEN "Terminated"
    ELSE IF setupPc = "start" THEN "Idle"
    ELSE IF setupPc \in {"spawn", "aborted"} THEN "Spawning"
    ELSE IF worker = "spawnFailed" THEN "FallbackAssumed"
    ELSE "Running"

\* The moves of the state machine of C14.
C14_Moves ==
    {<<"Idle", "Spawning">>, <<"Spawning", "Running">>,
     <<"Spawning", "FallbackAssumed">>, <<"Running", "Terminated">>,
     <<"FallbackAssumed", "Terminated">>}

\* C14: the supervisor only moves Idle -> Spawning -> {Running,
\* FallbackAssumed} -> Terminated, and a slot the shutdown handler has left
\* empty is never filled again.
C14_SupervisorStateMachine ==
    [][/\ SupervisorState' # SupervisorState =>
             <<SupervisorState, SupervisorState'>> \in C14_Moves
       /\ (SupervisorState = "Terminated" /\ proc = NoChild) => proc' = NoChild]_vars

Contexts ==
    {SetupCtx} \cup {WinCtx(w) : w \in Windows} \cup {UiCtx(c) : c \in Callers}

\* C17: no interleaving of setup, get_backend_port, reset_credentials_vault
\* and the shutdown handlers deadlocks: no context ever holds both locks, and
\* every operation that has started completes (unless startup is aborted and
\* the process is gone).
C17_NoDeadlock ==
    /\ [](\A ctx \in Contexts : Cardinality(Holds(ctx)) <= 1)
    /\ (setupPc \notin {"start", "done", "aborted"}) ~> (setupPc = "done")
    /\ \A w \in Windows :
          (hPc[w] \in {"locked", "kill"}) ~> (hPc[w] = "done" \/ ~Alive)
    /\ (uiPc[UiCaller] # "idle") ~> (uiPc[UiCaller] = "idle" \/ ~Alive)

C17_Witness ==
    /\ portLock = UiCtx(UiCaller)
    /\ procLock = SetupCtx
    /\ \E w \in Windows : hPc[w] = "done"

\* C18: frame conditions: a step of a command invocation (get_backend_port
\* or reset_credentials_vault) changes neither the port cell nor the handle
\* cell, a step of a Destroyed handler does not change the port cell, and a
\* get_backend_port that returns after the worker has been sent its kill
\* request still returns the published port.
C18_Frames ==
    [][/\ <<uiVars, uiAtCall, uiPrevDeleted, uiDeleted, vault>>'
              # <<uiVars, uiAtCall, uiPrevDeleted, uiDeleted, vault>>
            => (port' = port /\ proc' = proc)
       /\ hPc' # hPc => port' = port
       /\ \A c \in Callers :
             (uiPc[c] = "getLocked" /\ uiPc'[c] = "idle" /\ kills > 0 /\ portWrites > 0)
                 => (uiRet'[c] = Ok(HardcodedPort) /\ port' = HardcodedPort)]_vars

C18_Witness ==
    /\ worker = "killed" /\ proc = NoChild
    /\ AllWindowsHandled
    /\ uiDeleted[UiCaller] /\ ~vault
    /\ uiPrev[UiCaller] = Ok(Unit)
    /\ uiRet[UiCaller] = Ok(HardcodedPort)
    /\ port = HardcodedPort

====
